---- MODULE Spec2Model ----
(***************************************************************************)
(* Model of src/main.py: PrivatBankAPI.fetch_exchange_rates and            *)
(* ExchangeRateService.get_rates.                                          *)
(*                                                                         *)
(* One get_rates call is a process with a position (pc).  The coroutines   *)
(* it hands to asyncio.gather are tasks that start and complete in any     *)
(* order.  The remote API is the environment: each fetch ends with one of  *)
(* the behaviours in Remote, chosen when the fetch completes.              *)
(* Python dicts are functions over string keys; JSON numbers are carried   *)
(* as opaque strings ("27.5") so that they never meet the "N/A" marker in  *)
(* an integer comparison.  Response bodies are JSON objects.               *)
(***************************************************************************)
EXTENDS Integers, Sequences, FiniteSets, TLC

\* ---------------------------------------------------------------- bounds
MaxDays == 3
MaxCalls == 2
MaxTicks == 1
StartDay == 19784

\* ------------------------------------------------------ program constants
DaysLimit == 10
HTTP_OK == 200
BASE_URL == "https://api.privatbank.ua/p24api/exchange_rates?json&date="
NA == "N/A"
\* line 57: the key is the word sale wrapped in two backquote characters
\* (U+0060); a TLA+ string cannot hold a backquote, so an apostrophe stands
\* for each.  It is not the key "sale".
SALE_KEY == "'sale'"
\* line 58
PURCHASE_KEY == "purchase"

VARIABLES
    call,        \* number of get_rates calls entered so far
    pc,          \* position of the current get_rates call
    days,        \* argument days
    currencies,  \* argument currencies
    now,         \* the wall clock, as a day number (days since 1970-01-01)
    ticks,       \* midnights passed so far
    sessions,    \* every ClientSession ever created: id -> [state, owner]
    session,     \* the session of the current call (0: none)
    i,           \* loop variable of line 42
    tasks,       \* the list tasks of line 41, with each coroutine's progress
    order,       \* gather's record of the finished fetches, in completion order
    reordered,   \* history: the fetches did not finish in request order
    netCalls,    \* session.get calls issued by the current call
    responses,   \* the list responses of line 46
    k,           \* number of responses line 49 has consumed
    result,      \* the list result of line 48
    origin,      \* for each entry of result, the day offset it came from
    log,         \* what the current call printed
    raised,      \* the exception that left get_rates ("none": none)
    prev         \* history: how the previous call went (used by SpecDet only)

vars == << call, pc, days, currencies, now, ticks, sessions, session, i,
           tasks, order, reordered, netCalls, responses, k, result, origin, log,
           raised, prev >>

\* ------------------------------------------------------------ input sets
DaysDom == (-1 .. MaxDays) \cup {DaysLimit + 1}
CurrencySets == { {}, {"USD", "EUR"} }

\* ----------------------------------------------------------------- dates
\* datetime.strftime("%d.%m.%Y") of the day number z: <<day, month, year>>.
Strftime(z) ==
    LET s   == z + 719468
        era == s \div 146097
        doe == s - era * 146097
        yoe == (doe - doe \div 1460 + doe \div 36524 - doe \div 146096) \div 365
        doy == doe - (365 * yoe + yoe \div 4 - yoe \div 100)
        mp  == (5 * doy + 2) \div 153
        d   == doy - (153 * mp + 2) \div 5 + 1
        m   == IF mp < 10 THEN mp + 3 ELSE mp - 9
        y   == yoe + era * 400 + (IF m <= 2 THEN 1 ELSE 0)
    IN  << d, m, y >>

\* line 43: (datetime.now() - timedelta(days=off)).strftime("%d.%m.%Y")
DateKey(clock, off) == Strftime(clock - off)

\* line 18
Url(date) == << BASE_URL, date >>

\* ------------------------------------------------------ the remote source
\* What the remote does with one request.
Remote == { "connect_error", "disconnect", "status_404", "bad_json",
            "empty", "no_date", "no_rates",
            "usd_gbp", "nb_schema", "no_code" }

USD_GBP    == << [currency |-> "USD", saleRate |-> "27.5", purchaseRate |-> "27.0"],
                 [currency |-> "GBP", saleRate |-> "35.0", purchaseRate |-> "34.5"] >>
NB_SCHEMA  == << [currency |-> "USD", saleRateNB |-> "27.2", purchaseRateNB |-> "27.1"],
                 [currency |-> "EUR"],
                 [currency |-> "USD", saleRateNB |-> "28.0", purchaseRate |-> "27.9"] >>
NO_CODE    == << [baseCurrency |-> "UAH", saleRateNB |-> "1.0"],
                 [currency |-> "USD", saleRate |-> "27.5", purchaseRate |-> "27.0"] >>
StaleLabel == << 1, 1, 2024 >>

\* The transport outcome, the status and the parsed body of each behaviour.
Transport(r) == CASE r = "connect_error" -> "ClientConnectorError"
                  [] r = "disconnect"    -> "ServerDisconnectedError"
                  [] OTHER               -> "ok"
Status(r) == IF r = "status_404" THEN 404 ELSE HTTP_OK
Parseable(r) == r # "bad_json"
Json(r, date) ==
    CASE r = "empty"     -> << >>
      [] r = "no_date"   -> [exchangeRate |-> USD_GBP]
      [] r = "no_rates"  -> [date |-> date]
      [] r = "usd_gbp"   -> [date |-> date, exchangeRate |-> USD_GBP]
      [] r = "nb_schema" -> [date |-> StaleLabel, exchangeRate |-> NB_SCHEMA]
      [] r = "no_code"   -> [date |-> date, exchangeRate |-> NO_CODE]

\* ---------------------------------------------------- fetch_exchange_rates
\* An exception object; str(e) is built from reason, url, status and cause.
Exception(type, reason, url, status, cause) ==
    [type |-> type, reason |-> reason, url |-> url, status |-> status, cause |-> cause]

\* lines 9-11, raised at lines 25, 27 and 29
HttpError(reason, url, status, cause) ==
    Exception("HttpError", reason, url, status, cause)

Returned(v) == [exc |-> FALSE, value |-> v]
Raised(e)   == [exc |-> TRUE, value |-> e]

\* lines 17-29: the value the coroutine returns or the exception it raises.
fetch_exchange_rates(r, date) ==
    LET url == Url(date) IN
    CASE Transport(r) = "ClientConnectorError" ->
             Raised(HttpError("Connection error", url, 0, Transport(r)))
      [] Transport(r) = "ServerDisconnectedError" ->
             Raised(Exception(Transport(r), "Server disconnected", << >>, 0, ""))
      [] Transport(r) = "ok" /\ Status(r) # HTTP_OK ->
             Raised(HttpError("Error status", url, Status(r), ""))
      [] Transport(r) = "ok" /\ Status(r) = HTTP_OK /\ ~Parseable(r) ->
             Raised(HttpError("Invalid JSON response", url, 0, ""))
      [] OTHER -> Returned(Json(r, date))

\* ------------------------------------------------------------- get_rates
\* line 37
RangeCheckFails(d) == d > DaysLimit

\* One session made once and used by every call.
SharedSession(ss) == 1

\* line 40: aiohttp.ClientSession() makes a new object.
ClientSession(ss) == Cardinality(DOMAIN ss) + 1

\* line 44: the coroutine object appended to tasks; it has not started yet.
\* off is the day offset the coroutine was made for.
Coroutine(sess, date, off) ==
    [date |-> date, sess |-> sess, st |-> "created", remote |-> "-", off |-> off]

\* gather without return_exceptions=True: the first exception ends the wait.
GatherFirstException(ts) ==
    \/ \A j \in 1 .. Len(ts) : ts[j].st = "done"
    \/ \E j \in 1 .. Len(ts) :
           ts[j].st = "done" /\ fetch_exchange_rates(ts[j].remote, ts[j].date).exc

\* line 46: gather returns once every awaitable has finished.
GatherDone(ts) == \A j \in 1 .. Len(ts) : ts[j].st = "done"

\* The outcome of one task; a task that has not finished has none to give.
\* The field off remembers which coroutine the outcome belongs to.
TaskOutcome(t) ==
    [off |-> t.off] @@
    (IF t.st = "done"
     THEN fetch_exchange_rates(t.remote, t.date)
     ELSE Raised(Exception("InvalidStateError", "Result is not set.", << >>, 0, "")))

\* Outcomes handed back as they arrive (asyncio.as_completed).
GatheredAsCompleted(ts, ord) == [j \in 1 .. Len(ord) |-> TaskOutcome(ts[ord[j]])]

\* line 46: with return_exceptions=True the outcomes come back as values, in
\* the order of the awaitables passed in.
Gathered(ts, ord) == [j \in 1 .. Len(ts) |-> TaskOutcome(ts[j])]

\* line 50
IsException(response) == response.exc

\* line 53
StructureOk(p) == DOMAIN p # {} /\ "date" \in DOMAIN p /\ "exchangeRate" \in DOMAIN p

\* dict.get(key, default)
Get(d, key, default) == IF key \in DOMAIN d THEN d[key] ELSE default

\* lines 56-59: the value built for one rate entry.
RateQuote(rate) ==
    (SALE_KEY :> Get(rate, "saleRate", NA)) @@ (PURCHASE_KEY :> Get(rate, "purchaseRate", NA))

\* lines 60-61: rate["currency"] of an entry without that key raises KeyError.
RaisesKeyError(entries) ==
    \E j \in 1 .. Len(entries) : "currency" \notin DOMAIN entries[j]

\* The comprehension without its filter.
SelectedAll(entries, currs) == 1 .. Len(entries)

\* line 61: the entries the comprehension keeps.
Selected(entries, currs) ==
    { j \in 1 .. Len(entries) : entries[j].currency \in currs }

\* The comprehension with the first entry of a key kept.
RatesKeepFirst(entries, currs) ==
    LET sel == Selected(entries, currs)
        first(c) == CHOOSE j \in sel :
                        /\ entries[j].currency = c
                        /\ \A j2 \in sel : entries[j2].currency = c => j <= j2
    IN  [c \in { entries[j].currency : j \in sel } |-> RateQuote(entries[first(c)])]

\* lines 55-62: the dict comprehension; a later entry with the same key
\* replaces an earlier one.
Rates(entries, currs) ==
    LET sel == Selected(entries, currs)
        last(c) == CHOOSE j \in sel :
                       /\ entries[j].currency = c
                       /\ \A j2 \in sel : entries[j2].currency = c => j2 <= j
    IN  [c \in { entries[j].currency : j \in sel } |-> RateQuote(entries[last(c)])]

\* str(e) as printed at line 51
Str(e) == [text |-> e.reason, url |-> e.url, status |-> e.status, cause |-> e.cause]

\* line 65
StructureWarning ==
    [text |-> "Unexpected API response structure.", url |-> << >>, status |-> 0, cause |-> ""]

Effect(append, print, raise) == [append |-> append, print |-> print, raise |-> raise]

\* The loop body with the exception re-raised instead of printed.
process_response_reraise(response, currs) ==
    IF IsException(response)
    THEN Effect(<< >>, << >>, response.value.type)
    ELSE LET p == response.value IN
         IF StructureOk(p)
         THEN IF RaisesKeyError(p.exchangeRate)
              THEN Effect(<< >>, << >>, "KeyError")
              ELSE Effect(<< (p.date :> Rates(p.exchangeRate, currs)) >>, << >>, "none")
         ELSE Effect(<< >>, << StructureWarning >>, "none")

\* The loop body with an unexpected structure raised instead of printed.
process_response_strict(response, currs) ==
    IF IsException(response)
    THEN Effect(<< >>, << Str(response.value) >>, "none")
    ELSE LET p == response.value IN
         IF StructureOk(p)
         THEN IF RaisesKeyError(p.exchangeRate)
              THEN Effect(<< >>, << >>, "KeyError")
              ELSE Effect(<< (p.date :> Rates(p.exchangeRate, currs)) >>, << >>, "none")
         ELSE Effect(<< >>, << StructureWarning >>, "HttpError")

\* lines 50-65: one iteration of the loop over responses: the entries it
\* appends to result, the lines it prints and the exception it raises.
process_response(response, currs) ==
    IF IsException(response)
    THEN Effect(<< >>, << Str(response.value) >>, "none")
    ELSE LET p == response.value IN
         IF StructureOk(p)
         THEN IF RaisesKeyError(p.exchangeRate)
              THEN Effect(<< >>, << >>, "KeyError")
              ELSE Effect(<< (p.date :> Rates(p.exchangeRate, currs)) >>, << >>, "none")
         ELSE Effect(<< >>, << StructureWarning >>, "none")

\* ----------------------------------------------------------------- Init
\* The record kept of a call that is over: what each fetch was asked and
\* what the source did, and how the call ended.
CallRecord(ts, res, ended, reord) ==
    [asked |-> [j \in 1 .. Len(ts) |-> [date |-> ts[j].date, remote |-> ts[j].remote]],
     result |-> res, ended |-> ended, reordered |-> reord]
NoCall == CallRecord(<< >>, << >>, "none", FALSE)

Init ==
    /\ call = 0
    /\ pc = "idle"
    /\ days = 0
    /\ currencies = {}
    /\ now = StartDay
    /\ ticks = 0
    /\ sessions = << >>
    /\ session = 0
    /\ i = 0
    /\ tasks = << >>
    /\ order = << >>
    /\ reordered = FALSE
    /\ netCalls = 0
    /\ responses = << >>
    /\ k = 0
    /\ result = << >>
    /\ origin = << >>
    /\ log = << >>
    /\ raised = "none"
    /\ prev = NoCall

\* -------------------------------------------------------------- actions
\* lines 36-40: get_rates(d, cs) is entered; the previous call is over.
get_rates_enter(d, cs) ==
    /\ pc \in {"idle", "returned", "raised"}
    /\ call < MaxCalls
    /\ call' = call + 1
    /\ days' = d
    /\ currencies' = cs
    /\ i' = 0
    /\ tasks' = << >>
    /\ order' = << >>
    /\ reordered' = FALSE
    /\ netCalls' = 0
    /\ responses' = << >>
    /\ k' = 0
    /\ result' = << >>
    /\ origin' = << >>
    /\ log' = << >>
    /\ IF RangeCheckFails(d)
       THEN /\ pc' = "raised"
            /\ raised' = "ValueError"
            /\ session' = 0
            /\ sessions' = sessions
       ELSE /\ pc' = "loop"
            /\ raised' = "none"
            /\ session' = ClientSession(sessions)
            /\ sessions' = sessions @@
                   (ClientSession(sessions) :> [state |-> "open", owner |-> call + 1])
    /\ UNCHANGED << now, ticks >>

\* A caller invokes get_rates(d, cs).
Enter(d, cs) ==
    /\ get_rates_enter(d, cs)
    /\ UNCHANGED prev

\* The caller repeats the call that is over, with the same arguments.
Again ==
    /\ call >= 1
    /\ get_rates_enter(days, currencies)
    /\ prev' = CallRecord(tasks, result, pc, reordered)

\* lines 42-44: one iteration of the loop over range(days)
LoopStep ==
    /\ pc = "loop"
    /\ i < days
    /\ tasks' = Append(tasks, Coroutine(session, DateKey(now, i), i))
    /\ i' = i + 1
    /\ UNCHANGED << call, pc, days, currencies, now, ticks, sessions, session,
                    order, reordered, netCalls, responses, k, result, origin, log, raised, prev >>

\* The wall clock passes midnight.  The clock is read only at line 43, so
\* only the ticks during the loop can be seen.
Tick ==
    /\ pc = "loop"
    /\ ticks < MaxTicks
    /\ now' = now + 1
    /\ ticks' = ticks + 1
    /\ UNCHANGED << call, pc, days, currencies, sessions, session, i, tasks,
                    order, reordered, netCalls, responses, k, result, origin, log, raised, prev >>

\* line 46: range(days) is exhausted and get_rates awaits gather(*tasks).
GatherAwait ==
    /\ pc = "loop"
    /\ i >= days
    /\ pc' = "gather"
    /\ UNCHANGED << call, days, currencies, now, ticks, sessions, session, i,
                    tasks, order, reordered, netCalls, responses, k, result, origin, log,
                    raised, prev >>

\* The fetches awaited one after the other: task j starts only when the
\* tasks before it have finished.
StartFetchSequential(j) ==
    /\ pc = "gather"
    /\ tasks[j].st = "created"
    /\ \A j2 \in 1 .. j - 1 : tasks[j2].st = "done"
    /\ tasks' = [tasks EXCEPT ![j].st = "running"]
    /\ netCalls' = netCalls + 1
    /\ UNCHANGED << call, pc, days, currencies, now, ticks, sessions, session,
                    i, order, reordered, responses, k, result, origin, log, raised, prev >>

\* line 20: task j runs up to session.get(url) and suspends on the network.
StartFetch(j) ==
    /\ pc = "gather"
    /\ tasks[j].st = "created"
    /\ tasks' = [tasks EXCEPT ![j].st = "running"]
    /\ netCalls' = netCalls + 1
    /\ UNCHANGED << call, pc, days, currencies, now, ticks, sessions, session,
                    i, order, reordered, responses, k, result, origin, log, raised, prev >>

\* A fetch that failed is issued again.
CompleteFetchRetry(j, r) ==
    /\ tasks[j].st = "running"
    /\ IF fetch_exchange_rates(r, tasks[j].date).exc
       THEN /\ tasks' = [tasks EXCEPT ![j].st = "created"]
            /\ order' = order
       ELSE /\ tasks' = [tasks EXCEPT ![j].st = "done", ![j].remote = r]
            /\ order' = Append(order, j)
    /\ UNCHANGED << reordered, call, pc, days, currencies, now, ticks, sessions, session,
                    i, netCalls, responses, k, result, origin, log, raised, prev >>

\* lines 20-29: the remote answers task j (or the transport fails) and the
\* coroutine finishes.
CompleteFetch(j, r) ==
    /\ tasks[j].st = "running"
    /\ tasks' = [tasks EXCEPT ![j].st = "done", ![j].remote = r]
    /\ order' = Append(order, j)
    /\ UNCHANGED << reordered, call, pc, days, currencies, now, ticks, sessions, session,
                    i, netCalls, responses, k, result, origin, log, raised, prev >>

\* line 46: gather returns the list of outcomes.
GatherReturn ==
    /\ pc = "gather"
    /\ GatherDone(tasks)
    /\ responses' = Gathered(tasks, order)
    /\ reordered' = (\E a, b \in 1 .. Len(order) : a < b /\ order[a] > order[b])
    /\ order' = << >>
    /\ pc' = "exit"
    /\ UNCHANGED << call, days, currencies, now, ticks, sessions, session, i,
                    tasks, netCalls, k, result, origin, log, raised, prev >>

\* line 40: leaving the async with block closes the session.
CloseSession ==
    /\ pc = "exit"
    /\ sessions' = [sessions EXCEPT ![session].state = "closed"]
    /\ pc' = "aggregate"
    /\ UNCHANGED << call, days, currencies, now, ticks, session, i, tasks,
                    order, reordered, netCalls, responses, k, result, origin, log, raised, prev >>

\* lines 49-65: one iteration of the loop over responses
ProcessResponse ==
    /\ pc = "aggregate"
    /\ k < Len(responses)
    /\ LET eff == process_response(responses[k + 1], currencies) IN
       /\ log' = log \o eff.print
       /\ IF eff.raise # "none"
          THEN /\ pc' = "raised"
               /\ raised' = eff.raise
               /\ UNCHANGED << k, result, origin >>
          ELSE /\ result' = result \o eff.append
               /\ origin' = origin \o [n \in 1 .. Len(eff.append) |-> responses[k + 1].off]
               /\ k' = k + 1
               /\ UNCHANGED << pc, raised, prev >>
    /\ UNCHANGED << call, days, currencies, now, ticks, sessions, session, i,
                    tasks, order, reordered, netCalls, responses, prev >>

\* line 66
Return ==
    /\ pc = "aggregate"
    /\ k = Len(responses)
    /\ pc' = "returned"
    /\ UNCHANGED << call, days, currencies, now, ticks, sessions, session, i,
                    tasks, order, reordered, netCalls, responses, k, result, origin, log,
                    raised, prev >>

Next ==
    \/ \E d \in DaysDom, cs \in CurrencySets : Enter(d, cs)
    \/ LoopStep
    \/ GatherAwait
    \/ \E j \in 1 .. Len(tasks) : StartFetch(j)
    \/ \E j \in 1 .. Len(tasks), r \in Remote : CompleteFetch(j, r)
    \/ GatherReturn
    \/ CloseSession
    \/ ProcessResponse
    \/ Return

\* The clock stays within one day for the whole run.
Spec == Init /\ [][Next]_vars

\* The clock may pass midnight while get_rates computes its dates.
NextClock == Next \/ Tick

SpecClock == Init /\ [][NextClock]_vars

\* The source behaviours of the repeated-call runs.
RemoteDet == { "status_404", "usd_gbp", "nb_schema" }

\* One call and then the same call again; the clock stays within one day.
NextDet ==
    \/ \E d \in DaysDom, cs \in CurrencySets : call = 0 /\ Enter(d, cs)
    \/ Again
    \/ LoopStep
    \/ GatherAwait
    \/ \E j \in 1 .. Len(tasks) : StartFetch(j)
    \/ \E j \in 1 .. Len(tasks), r \in RemoteDet : CompleteFetch(j, r)
    \/ GatherReturn
    \/ CloseSession
    \/ ProcessResponse
    \/ Return

SpecDet == Init /\ [][NextDet]_vars

\* ============================================================ properties
\* Vocabulary of the properties below.
InRange(d) == d \in 1 .. DaysLimit
Over == pc \in {"returned", "raised"}
Range(seq) == { seq[n] : n \in DOMAIN seq }
Increasing(seq) == \A a, b \in DOMAIN seq : a < b => seq[a] < seq[b]
\* The rates mapping of one DayReport {date: rates}.
RatesOf(report) == report[CHOOSE d \in DOMAIN report : TRUE]
\* The position in responses of the outcome of day offset off.
ResponseAt(off) == CHOOSE j \in 1 .. Len(responses) : responses[j].off = off
\* What the fetch of a finished task gave.
Failed(t) == fetch_exchange_rates(t.remote, t.date).exc
Body(t) == fetch_exchange_rates(t.remote, t.date).value
FailedTasks == { j \in 1 .. Len(tasks) : Failed(tasks[j]) }
\* A payload with the date label, the rate list and a currency code in
\* every rate entry.
WellFormed(p) == StructureOk(p) /\ ~RaisesKeyError(p.exchangeRate)
\* An outcome that is a parsed payload without the date label or the list.
BadStructure(r) == ~r.exc /\ ~StructureOk(r.value)
StructureWarnings == { n \in 1 .. Len(log) : log[n].text = StructureWarning.text }

\* C1: whenever a get_rates call with days < 1 or days > 10 is over, it
\* ended with the configuration error and did not return a report.
C1_OutOfRangeRejected ==
    (call > 0 /\ ~InRange(days) /\ Over) => (pc = "raised" /\ raised = "ValueError")

\* C2: a get_rates call with days outside [1,10] acquires no session and
\* issues no fetch.
C2_NoIoOutOfRange ==
    (call > 0 /\ ~InRange(days)) =>
        /\ \A id \in DOMAIN sessions : sessions[id].owner # call
        /\ Len(tasks) = 0
        /\ netCalls = 0

\* C3: for days in [1,10], once get_rates is past the gather (it leaves the
\* session block, aggregates, returns or raises from the aggregation), one
\* fetch per day was launched and every one of them has finished.
C3_JoinBarrier ==
    (InRange(days) /\ pc \in {"exit", "aggregate", "returned", "raised"}) =>
        /\ Len(tasks) = days
        /\ \A j \in 1 .. Len(tasks) : tasks[j].st = "done"
        /\ Len(responses) = days

\* C3 witness: of two fetches the second finished first and failed, the
\* first finished after it with a payload, and aggregation has begun.
C3_Witness ==
    /\ pc = "aggregate"
    /\ days = 2
    /\ reordered
    /\ responses[2].exc
    /\ ~responses[1].exc

\* C4: the entries of result come from strictly increasing day offsets.
C4_RequestOrder ==
    /\ Len(origin) = Len(result)
    /\ Increasing(origin)

\* C4 witness: a report of at least two entries is returned although the
\* fetches did not finish in request order.
C4_Witness ==
    /\ pc = "returned"
    /\ reordered
    /\ Len(result) >= 2

\* C5: for days in [1,10], when every fetch either failed or gave a
\* well-formed payload, the call returns, result has one entry for each day
\* offset that did not fail, in request order, and one line was printed for
\* each failed fetch.
C5_PartialFailure ==
    ( /\ Over
      /\ InRange(days)
      /\ Len(tasks) = days
      /\ \A j \in 1 .. Len(tasks) : Failed(tasks[j]) \/ WellFormed(Body(tasks[j])) )
    =>
    ( /\ pc = "returned"
      /\ Len(result) = days - Cardinality(FailedTasks)
      /\ Range(origin) = { tasks[j].off : j \in (1 .. Len(tasks)) \ FailedTasks }
      /\ Increasing(origin)
      /\ Len(log) = Cardinality(FailedTasks) )

\* C5 witness: of three days only the middle one failed and the report has
\* the two entries of offsets 0 and 2.
C5_Witness ==
    /\ pc = "returned"
    /\ days = 3
    /\ FailedTasks = {2}
    /\ origin = << 0, 2 >>
    /\ Len(log) = 1

\* C6: a get_rates call with days in [1,10] always ends by returning a
\* report; no exception leaves it.
C6_OnlyConfigErrorPropagates ==
    (InRange(days) /\ Over) => (pc = "returned" /\ raised = "none")

\* C7: a day whose payload lacks the date label or the rate list (or is
\* empty) has no entry in result, printed exactly one warning, did not make
\* the loop raise, and every well-formed day processed so far has its entry.
C7_StructuralFailureDropped ==
    /\ \A j \in 1 .. k :
           BadStructure(responses[j]) => responses[j].off \notin Range(origin)
    /\ Cardinality(StructureWarnings)
           = Cardinality({ j \in 1 .. k : BadStructure(responses[j]) })
    /\ (pc = "raised" /\ raised # "ValueError") =>
           (k < Len(responses) /\ ~BadStructure(responses[k + 1]))
    /\ \A j \in 1 .. k :
           (~responses[j].exc /\ WellFormed(responses[j].value))
               => responses[j].off \in Range(origin)

\* C7 witness: of three days the middle one came without its rate list; the
\* call returned the entries of the two other days and one warning.
C7_Witness ==
    /\ pc = "returned"
    /\ days = 3
    /\ BadStructure(responses[2])
    /\ "date" \in DOMAIN responses[2].value
    /\ origin = << 0, 2 >>
    /\ Cardinality(StructureWarnings) = 1

\* C8: the currency codes of every DayReport are exactly the codes of the
\* day's rate entries that are in the requested set, and every well-formed
\* payload processed so far has its DayReport.
C8_CurrencyFilter ==
    /\ \A n \in 1 .. Len(result) :
           LET entries == responses[ResponseAt(origin[n])].value.exchangeRate IN
           DOMAIN RatesOf(result[n])
               = { entries[x].currency : x \in 1 .. Len(entries) } \cap currencies
    /\ \A j \in 1 .. k :
           (~responses[j].exc /\ WellFormed(responses[j].value))
               => responses[j].off \in Range(origin)

\* C8 witness: USD and EUR were requested, the payload carries USD and GBP,
\* and the DayReport holds USD alone.
C8_Witness ==
    /\ pc = "returned"
    /\ currencies = {"USD", "EUR"}
    /\ \E n \in 1 .. Len(result) :
           LET entries == responses[ResponseAt(origin[n])].value.exchangeRate IN
           /\ { entries[x].currency : x \in 1 .. Len(entries) } = {"USD", "GBP"}
           /\ DOMAIN RatesOf(result[n]) = {"USD"}

\* The value a quote carries under key, for the rate entry e: one of the
\* values e has under the field names, the marker when it has none of them.
QuotedFrom(q, key, e, names) ==
    IF names \cap DOMAIN e = {}
    THEN q[key] = NA
    ELSE q[key] \in { e[f] : f \in names \cap DOMAIN e }

\* C9: every quote of every DayReport carries, for sale and for purchase,
\* the value its rate entry has under either schema's field name, and the
\* marker only when the entry has neither.
C9_EitherSchema ==
    \A n \in 1 .. Len(result) :
        LET entries == responses[ResponseAt(origin[n])].value.exchangeRate
            rates   == RatesOf(result[n])
        IN  \A c \in DOMAIN rates :
                \E x \in 1 .. Len(entries) :
                    /\ entries[x].currency = c
                    /\ QuotedFrom(rates[c], SALE_KEY, entries[x],
                                  {"saleRateNB", "saleRate"})
                    /\ QuotedFrom(rates[c], PURCHASE_KEY, entries[x],
                                  {"purchaseRateNB", "purchaseRate"})

\* C10: during and after a get_rates call with days in [1,10] the call has a
\* session of its own; every coroutine of the call holds that session; a
\* fetch is in flight only while the session is open; the session is closed
\* once the call aggregates, returns or raises; and the sessions of earlier
\* calls are closed.
C10_SessionScope ==
    (InRange(days) /\ pc # "idle") =>
        /\ session \in DOMAIN sessions
        /\ sessions[session].owner = call
        /\ \A j \in 1 .. Len(tasks) :
               /\ tasks[j].sess = session
               /\ tasks[j].st = "running" => sessions[session].state = "open"
        /\ pc \in {"aggregate", "returned", "raised"}
               => sessions[session].state = "closed"
        /\ \A id \in DOMAIN sessions :
               sessions[id].owner # call => sessions[id].state = "closed"

\* C10 witness: the second call, made after a first call that had a session,
\* returned after one failed and one successful fetch, and its own session
\* is closed.
C10_Witness ==
    /\ call = 2
    /\ pc = "returned"
    /\ Cardinality(DOMAIN sessions) = 2
    /\ days = 2
    /\ Cardinality(FailedTasks) = 1
    /\ sessions[session].state = "closed"

\* The date key of one DayReport {date: rates}.
DateOf(report) == CHOOSE d \in DOMAIN report : TRUE
\* Date a is a later calendar day than date b (dates are <<day, month, year>>).
Later(a, b) ==
    \/ a[3] > b[3]
    \/ a[3] = b[3] /\ a[2] > b[2]
    \/ a[3] = b[3] /\ a[2] = b[2] /\ a[1] > b[1]

\* C11: for days in [1,10] the report has at most days entries and every
\* entry carries a later date than the entries after it (so no two entries
\* carry the same date).
C11_DistinctDescendingDates ==
    InRange(days) =>
        /\ Len(result) <= days
        /\ \A a, b \in 1 .. Len(result) :
               a < b => Later(DateOf(result[a]), DateOf(result[b]))

\* The source did the same for the same date in the previous call and in
\* the current one.
SameSource ==
    \A a \in 1 .. Len(prev.asked), b \in 1 .. Len(tasks) :
        prev.asked[a].date = tasks[b].date => prev.asked[a].remote = tasks[b].remote

\* C12: when a call made again with the same arguments is over and the
\* source did the same for every date as in the call before, the call ended
\* the same way with the same report.
C12_Deterministic ==
    (call >= 2 /\ Over /\ SameSource) =>
        (result = prev.result /\ pc = prev.ended)

\* C12 witness: the repeated call returned a report of at least two entries
\* from the same source; its fetches finished out of request order, those
\* of the call before in request order.
C12_Witness ==
    /\ call = 2
    /\ pc = "returned"
    /\ SameSource
    /\ Len(result) >= 2
    /\ reordered
    /\ ~prev.reordered
    /\ prev.ended = "returned"

\* C13: every finished fetch ended in one of four ways, decided by what the
\* remote did: a transport failure gives the HttpError "Connection error"
\* with the URL and the cause, a status other than 200 the HttpError "Error
\* status" with the status and the URL, an unparsable body the HttpError
\* "Invalid JSON response" with the URL, and anything else the parsed
\* payload as it came.
C13_FourOutcomes ==
    \A j \in 1 .. Len(tasks) :
        tasks[j].st = "done" =>
            LET r   == tasks[j].remote
                o   == fetch_exchange_rates(r, tasks[j].date)
                url == Url(tasks[j].date)
            IN  CASE Transport(r) # "ok" ->
                         /\ o.exc
                         /\ o.value.type = "HttpError"
                         /\ o.value.reason = "Connection error"
                         /\ o.value.url = url
                         /\ o.value.cause = Transport(r)
                  [] Transport(r) = "ok" /\ Status(r) # HTTP_OK ->
                         /\ o.exc
                         /\ o.value.type = "HttpError"
                         /\ o.value.reason = "Error status"
                         /\ o.value.status = Status(r)
                         /\ o.value.url = url
                  [] Transport(r) = "ok" /\ Status(r) = HTTP_OK /\ ~Parseable(r) ->
                         /\ o.exc
                         /\ o.value.type = "HttpError"
                         /\ o.value.reason = "Invalid JSON response"
                         /\ o.value.url = url
                  [] OTHER ->
                         /\ ~o.exc
                         /\ o.value = Json(r, tasks[j].date)

\* C14: when a call with days in [1,10] has returned, it printed exactly one
\* line for each day that has no entry in the report and none for the
\* others, and every line carries the URL (with the date) and a reason.
C14_OneDiagnosticPerDroppedDay ==
    (InRange(days) /\ pc = "returned") =>
        /\ Len(log) = days - Len(result)
        /\ \A n \in 1 .. Len(log) : Len(log[n].url) > 0 /\ log[n].text # ""

\* C15: the dates asked for by one call are consecutive calendar days,
\* today first and each one day before the one asked before it, all
\* different, also when midnight passes while they are computed.
C15_ConsecutiveDates ==
    /\ \E z \in StartDay .. StartDay + MaxTicks :
           \A j \in 1 .. Len(tasks) : tasks[j].date = Strftime(z - (j - 1))
    /\ \A a, b \in 1 .. Len(tasks) : a # b => tasks[a].date # tasks[b].date

\* The tasks whose request has been issued.
Issued == { j \in 1 .. Len(tasks) : tasks[j].st \in {"running", "done"} }

\* C16: in a call with days in [1,10] every coroutine is made for its own
\* day offset, the number of requests issued is the number of coroutines
\* that have started (one request each, failed or not), and it is exactly
\* days once the call is past the gather.
C16_OneRequestPerDay ==
    InRange(days) =>
        /\ \A j \in 1 .. Len(tasks) : tasks[j].off = j - 1
        /\ Len(tasks) <= days
        /\ netCalls = Cardinality(Issued)
        /\ pc \in {"exit", "aggregate", "returned", "raised"} => netCalls = days

\* C16 witness: a call for three days returned after exactly three requests,
\* at least one of which failed.
C16_Witness ==
    /\ pc = "returned"
    /\ days = 3
    /\ netCalls = 3
    /\ FailedTasks # {}

\* C17: in a call with days in [1,10] all days coroutines have been made
\* when the call awaits the gather, no fetch has started while coroutines
\* are still being made, and while the call awaits the gather every fetch
\* that has not started can start, whatever the state of the others.
C17_AllLaunchedFirst ==
    InRange(days) =>
        /\ pc # "loop" => Len(tasks) = days
        /\ Issued # {} => pc # "loop"
        /\ pc = "gather" =>
               \A j \in 1 .. Len(tasks) :
                   tasks[j].st = "created" => ENABLED StartFetch(j)

\* C17 witness: the call awaits the gather with the first of three fetches
\* in flight and unfinished while the two others have not started yet.
C17_Witness ==
    /\ pc = "gather"
    /\ days = 3
    /\ tasks[1].st = "running"
    /\ tasks[2].st = "created"
    /\ tasks[3].st = "created"

\* C18: every quote of every DayReport has exactly the two fields sale and
\* purchase.
C18_QuoteFields ==
    \A n \in 1 .. Len(result) :
        \A c \in DOMAIN RatesOf(result[n]) :
            DOMAIN RatesOf(result[n])[c] = {"sale", "purchase"}

\* The entries of a payload that carry code c.
EntriesOf(entries, c) == { x \in 1 .. Len(entries) : entries[x].currency = c }

\* C19: a DayReport holds one quote for each requested code the payload
\* carries, however many entries carry that code, and the quote is made
\* from the last of them.
C19_UniqueCodes ==
    \A n \in 1 .. Len(result) :
        LET entries == responses[ResponseAt(origin[n])].value.exchangeRate
            rates   == RatesOf(result[n])
        IN  /\ Cardinality(DOMAIN rates)
                   = Cardinality({ entries[x].currency : x \in 1 .. Len(entries) }
                                     \cap currencies)
            /\ \A c \in DOMAIN rates :
                   \E x \in EntriesOf(entries, c) :
                       /\ \A y \in EntriesOf(entries, c) : y <= x
                       /\ rates[c] = RateQuote(entries[x])

\* C19 witness: the payload carries USD in two entries and the DayReport
\* holds one USD quote, with the purchase value of the second.
C19_Witness ==
    /\ pc = "returned"
    /\ \E n \in 1 .. Len(result) :
           LET entries == responses[ResponseAt(origin[n])].value.exchangeRate
               rates   == RatesOf(result[n])
           IN  /\ Cardinality(EntriesOf(entries, "USD")) = 2
               /\ DOMAIN rates = {"USD", "EUR"}
               /\ rates["USD"][PURCHASE_KEY] = "27.9"

====
